---- MODULE Spec2Model ----
(***************************************************************************)
(* Buhlmann ZH-L16C dive-profile engine (src/src/jabai/profile.py).        *)
(*                                                                         *)
(* Profile.__init__ is modelled as a state machine: one action per loop    *)
(* iteration or call of the constructor.  The program computes with        *)
(* IEEE doubles; the model computes with fixed-point integers:             *)
(*   depth            decimetres (the code rounds every depth to 0.1 m)    *)
(*   Time             [ds |-> minutes * 600, sec |-> seconds]              *)
(*   pressures, loads micro-bar (1e-6 bar)                                 *)
(*   ceilings         micrometres (1e-6 m)                                 *)
(*   gradient factors, CNS fractions, OTU   1e-6                           *)
(*   rates            decimetres per minute                                *)
(* Products are formed limb-wise (base 1000) because TLC integers are      *)
(* 32 bits wide.                                                           *)
(***************************************************************************)
EXTENDS Integers, Sequences, FiniteSets, TLC

----------------------------------------------------------------------------
(* Fixed-point arithmetic                                                  *)

Abs(x) == IF x < 0 THEN -x ELSE x

Sgn(x) == IF x < 0 THEN -1 ELSE IF x > 0 THEN 1 ELSE 0

Max2(x, y) == IF x > y THEN x ELSE y

Min2(x, y) == IF x < y THEN x ELSE y

\* round(n / d) for d > 0, ties to even (Python's round on an exact value)
RoundDiv(n, d) ==
    LET q == n \div d
        r == n % d
    IN  IF 2 * r < d THEN q
        ELSE IF 2 * r > d THEN q + 1
        ELSE IF q % 2 = 0 THEN q ELSE q + 1

\* ceil(n / d) for d # 0
CeilDiv(n, d) == IF d > 0 THEN -((-n) \div d) ELSE -(n \div (-d))

\* a * b / c for a, b >= 0, c > 0, without forming a * b
\* (exact floor when (a % c) * b fits in 31 bits)
MulDivU(a, b, c) == (a \div c) * b + ((a % c) * b) \div c

\* floor(a * b / c) for 0 <= a, b < 2^31 and 0 < c < 2^29, bit by bit over b
\* (the quotient must fit in 31 bits)
RECURSIVE MulDivBits(_, _, _, _, _, _)
MulDivBits(a, b, c, i, q, r) ==
    IF i < 0 THEN q
    ELSE LET bit == (b \div (2 ^ i)) % 2
             raw == 2 * r + bit * (a % c)
         IN  MulDivBits(a, b, c, i - 1,
                        2 * q + bit * (a \div c) + raw \div c, raw % c)

MulDiv(a, b, c) == MulDivBits(a, b, c, 30, 0, 0)

\* the product of the base-1000 limbs a0..a3 and b0..b3 as its columns
\* c0..c6, shifted right by k limbs and rounded (k = 2: / 1e6, k = 3: / 1e9)
MulColumns(c0, c1, c2, c3, c4, c5, c6, k) ==
    IF k = 2
    THEN ((c1 + c0 \div 1000) + 500) \div 1000 + c2 + 1000 * c3 + 1000000 * c4
         + 1000000000 * (c5 + 1000 * c6)
    ELSE ((c2 + (c1 + c0 \div 1000) \div 1000) + 500) \div 1000 + c3 + 1000 * c4
         + 1000000 * c5 + 1000000000 * c6

MulLimbs(a0, a1, a2, a3, b0, b1, b2, b3, k) ==
    MulColumns(a0 * b0,
               a0 * b1 + a1 * b0,
               a0 * b2 + a1 * b1 + a2 * b0,
               a0 * b3 + a1 * b2 + a2 * b1 + a3 * b0,
               a1 * b3 + a2 * b2 + a3 * b1,
               a2 * b3 + a3 * b2,
               a3 * b3, k)

\* a * b / 1000^k, rounded, for 0 <= a, b < 2^31: TLC integers are 32 bits
\* wide, so the product is formed limb by limb
MulShiftU(a, b, k) ==
    MulLimbs(a % 1000, (a \div 1000) % 1000, (a \div 1000000) % 1000,
             a \div 1000000000,
             b % 1000, (b \div 1000) % 1000, (b \div 1000000) % 1000,
             b \div 1000000000, k)

\* signed a * b / 1e6
Mul6(a, b) == Sgn(a) * Sgn(b) * MulShiftU(Abs(a), Abs(b), 2)

\* signed a * b / 1e9
Mul9(a, b) == Sgn(a) * Sgn(b) * MulShiftU(Abs(a), Abs(b), 3)

\* one step of a long division by b in base 100: <<quotient so far, rest>>
DivStep(qr, b) == <<qr[1] * 100 + (qr[2] * 100) \div b, (qr[2] * 100) % b>>

DivRound(qr, b) == qr[1] + (IF 2 * qr[2] >= b THEN 1 ELSE 0)

\* a * 1e6 / b, rounded, for a >= 0 and 0 < b < 2^31 / 100
DivShiftU(a, b) ==
    DivRound(DivStep(DivStep(DivStep(<<a \div b, a % b>>, b), b), b), b)

\* signed a * 1e6 / b, b # 0
Div6(a, b) == Sgn(a) * Sgn(b) * DivShiftU(Abs(a), Abs(b))

\* natural logarithm of x / 1e6 (x > 0), times 1e6:
\* x = m * 2^n with m in [0.75, 1.5), ln m = 2 atanh((m - 1) / (m + 1))
RECURSIVE LnReduce(_, _)
LnReduce(x, n) ==
    IF x >= 1500000 THEN LnReduce(x \div 2, n + 1)
    ELSE IF x < 750000 THEN LnReduce(2 * x, n - 1)
    ELSE <<x, n>>

\* atanh(u) = u + u^3/3 + u^5/5 + u^7/7 + u^9/9, u2 = u * u
AtanhSeries(u, u2) ==
    u + Mul6(Mul6(u, u2),
             333333 + Mul6(u2, 200000 + Mul6(u2, 142857 + Mul6(u2, 111111))))

Atanh6(u) == AtanhSeries(u, Mul6(u, u))

LnMantissa(mn) ==
    mn[2] * 693147 + 2 * Atanh6(Div6(mn[1] - 1000000, mn[1] + 1000000))

Ln6(x) == LnMantissa(LnReduce(x, 0))

\* 1 + (r / k) * inner, in 1e-6
ExpTerm(r, k, inner) == 1000000 + RoundDiv(Mul6(r, inner), k)

\* exp(r / 1e6) times 1e6 for |r| <= ln(2) / 2: the Taylor series to r^7 as
\* 1 + r (1 + r/2 (1 + r/3 (... (1 + r/7))))
ExpSeries(r) ==
    ExpTerm(r, 1, ExpTerm(r, 2, ExpTerm(r, 3, ExpTerm(r, 4,
        ExpTerm(r, 5, ExpTerm(r, 6, ExpTerm(r, 7, 1000000)))))))

\* e * 2^n
ExpScale(e, n) == IF n >= 0 THEN e * (2 ^ n) ELSE RoundDiv(e, 2 ^ (-n))

ExpSplit(x, n) == ExpScale(ExpSeries(x - n * 693147), n)

\* exp(x / 1e6) times 1e6: x = n * ln 2 + r
Exp6(x) == ExpSplit(x, RoundDiv(x, 693147))

\* pow(x / 1e6, p / q) times 1e6, x >= 0 (math.pow: pow(0, positive) = 0)
Pow6(x, p, q) == IF x = 0 THEN 0 ELSE Exp6(RoundDiv(p * Ln6(x), q))

----------------------------------------------------------------------------
(* Coefficients for Buhlmann ZH-L16C: half-times in 1/100 min, a and b in  *)
(* 1e-4                                                                    *)

Compartments == 1..16

ZH_L16_N2_ht ==
    <<500, 800, 1250, 1850, 2700, 3830, 5430, 7700, 10900, 14600, 18700,
      23900, 30500, 39000, 49800, 63500>>

ZH_L16_N2_a ==
    <<11696, 10000, 8618, 7562, 6200, 5043, 4410, 4000, 3750, 3500, 3295,
      3065, 2835, 2610, 2480, 2327>>

ZH_L16_N2_b ==
    <<5578, 6514, 7222, 7825, 8126, 8434, 8693, 8910, 9092, 9222, 9319,
      9403, 9477, 9544, 9602, 9653>>

ZH_L16_He_ht ==
    <<188, 302, 472, 699, 1021, 1448, 2053, 2911, 4120, 5519, 7069, 9034,
      11529, 14742, 18824, 24003>>

ZH_L16_He_a ==
    <<16189, 13830, 11919, 10458, 9220, 8205, 7305, 6502, 5950, 5545, 5333,
      5189, 5181, 5176, 5172, 5119>>

ZH_L16_He_b ==
    <<4770, 5747, 6527, 7223, 7582, 7957, 8279, 8553, 8757, 8903, 8997,
      9073, 9122, 9171, 9217, 9267>>

\* NOAA table for CNS calculation: <<from, to, m, b>>, ppO2 bounds in 1e-4 bar
noaa_cns_equations ==
    << <<5000, 6000, -1800, 1800>>, <<6000, 7000, -1500, 1620>>,
       <<7000, 8000, -1200, 1410>>, <<8000, 9000, -900, 1170>>,
       <<9000, 11000, -600, 900>>, <<11000, 15000, -300, 570>>,
       <<15000, 16000, -750, 1245>> >>

\* Water vapour pressure, micro-bar
pw == 56700

----------------------------------------------------------------------------
(* Time                                                                    *)

\* Time(time, unit='m'): minutes kept as given, seconds = int(round(time * 60))
TimeM(ds) == [ds |-> ds, sec |-> RoundDiv(ds, 10)]

\* Time(time, unit='s'): seconds kept as given, minutes = seconds / 60
TimeS(sec) == [ds |-> 10 * sec, sec |-> sec]

\* Waypoint(depth, duration, runtime, tank)
Waypoint(depth, duration, runtime, tank) ==
    [depth |-> depth, duration |-> duration, runtime |-> runtime, tank |-> tank]

----------------------------------------------------------------------------
(* Gas                                                                     *)

\* Gas.ppO2(depth) = (depth / 10 + 1) * O2 / 100, in 1e-4 bar (exact)
ppO2(gas, depth) == (depth + 100) * gas.O2

\* N2 percentage: 100 - o2 - he
GasN2(gas) == 100 - gas.O2 - gas.He

\* Gas.mod(pp_o2) >= depth, with mod = 10 * (pp_o2 / (O2 / 100) - 1) metres
\* and pp_o2 in 1e-1 bar: 1000 * pp - 100 * O2 >= depth(dm) * O2
ModAtLeast(gas, pp_o2, depth) == 1000 * pp_o2 - 100 * gas.O2 >= depth * gas.O2

\* depth > Gas.mod(pp_o2)
DeeperThanMod(gas, pp_o2, depth) == depth * gas.O2 > 1000 * pp_o2 - 100 * gas.O2

\* Gas.mod(pp_o2) in micrometres
ModUm(gas, pp_o2) == RoundDiv((1000 * pp_o2 - 100 * gas.O2) * 100000, gas.O2)

\* IntegrationPoint.p_amb = depth / 10 + 1, micro-bar
p_amb(depth) == depth * 10000 + 1000000

----------------------------------------------------------------------------
(* Tissue loading: Profile._calculate_compartments                         *)

\* the time steps dt (seconds) of the configurations explored
DtSet == {5, 30, 60, 120}

\* k * t = log(2) / ht * t for a step of dt seconds, in 1e-9
KT9(ht, dt) == MulDivU(693147181, 5 * dt, 3 * ht)

\* 1 - (x / k) * inner, in 1e-9
AltTerm(x, k, inner) == 1000000000 - Mul9(x, inner) \div k

\* (1 - exp(-x)) / x = 1 - x/2 (1 - x/3 (1 - x/4 (...))), x in 1e-9
ExpQuot9(x) ==
    AltTerm(x, 2, AltTerm(x, 3, AltTerm(x, 4, AltTerm(x, 5, AltTerm(x, 6,
        AltTerm(x, 7, AltTerm(x, 8, AltTerm(x, 9, AltTerm(x, 10,
            1000000000)))))))))

\* 1 - exp(-x), x in 1e-9
OneMinusExp9(x) == Mul9(x, ExpQuot9(x))

\* (x - (1 - exp(-x))) / x = 1 - (1 - exp(-x)) / x, x in 1e-9
ExpRest9(x) == 1000000000 - ExpQuot9(x)

\* 1 - exp(-k * t) per time step and compartment, 1e-9
ExpTabN2 ==
    [dt \in DtSet |-> [c \in Compartments |->
        OneMinusExp9(KT9(ZH_L16_N2_ht[c], dt))]]

ExpTabHe ==
    [dt \in DtSet |-> [c \in Compartments |->
        OneMinusExp9(KT9(ZH_L16_He_ht[c], dt))]]

\* t - (1 - exp(-k * t)) / k per time step and compartment, 1e-9 min
RestTabN2 ==
    [dt \in DtSet |-> [c \in Compartments |->
        Mul9(MulDivU(1000000000, dt, 60), ExpRest9(KT9(ZH_L16_N2_ht[c], dt)))]]

RestTabHe ==
    [dt \in DtSet |-> [c \in Compartments |->
        Mul9(MulDivU(1000000000, dt, 60), ExpRest9(KT9(ZH_L16_He_ht[c], dt)))]]

\* The Schreiner equation of one gas,
\*   p_ig = pi + r * (t - 1/k) - (pi - p0 - r/k) * exp(-k * t),
\* evaluated as p0 + (pi - p0) * (1 - exp(-k t)) + r * (t - (1 - exp(-k t)) / k),
\* the same value without the cancellation of r/k (hundreds of bar).
\*   load0: prev_ip.load_ig[g]; f_ig: percentage of the gas in the tank of
\*   prev_ip; t = prev_ip.waypoint.duration
Schreiner(load0, f_ig, depth, prev_depth, duration, expTab, restTab) ==
    LET pi == RoundDiv(f_ig * (p_amb(depth) - pw), 100)
        dd == depth - prev_depth
        r  == Sgn(dd) * MulDivU(Abs(dd) * f_ig, 60000, duration.ds)
        e  == expTab[duration.sec]
        g  == restTab[duration.sec]
    IN  [c \in Compartments |->
            load0[c] + Mul9(pi - load0[c], e[c]) + Mul9(r, g[c])]

\* Profile._calculate_compartments(ip, prev_ip): {'N2': ..., 'He': ...}
calculate_compartments(depth, prev_ip, tanks) ==
    LET gas == tanks[prev_ip.waypoint.tank + 1].gas
    IN  [N2 |-> Schreiner(prev_ip.load_ig.N2, GasN2(gas), depth,
                          prev_ip.waypoint.depth, prev_ip.waypoint.duration,
                          ExpTabN2, RestTabN2),
         He |-> Schreiner(prev_ip.load_ig.He, gas.He, depth,
                          prev_ip.waypoint.depth, prev_ip.waypoint.duration,
                          ExpTabHe, RestTabHe)]

----------------------------------------------------------------------------
(* Ceilings: Profile._calculate_ceilings, IntegrationPoint.ceiling         *)

\* p_max of _calculate_ceilings, as a depth: the deepest realized waypoint
MaxDepth(wps) ==
    LET RECURSIVE Scan(_, _)
        Scan(i, m) ==
            IF i > Len(wps) THEN m
            ELSE Scan(i + 1, IF wps[i].depth > m THEN wps[i].depth ELSE m)
    IN  Scan(1, 0)

\* gf = (gf_high - gf_low) / (1 - p_max) * (p_amb - 1) + gf_high, 1e-6;
\* (p_amb - 1) / (1 - p_max) = -depth / max_depth.  max_depth = 0 divides
\* by zero in the code (see CeilingsRaise).
GradientFactor(depth, max_depth, params) ==
    params.gf_high
    - RoundDiv((params.gf_high - params.gf_low) * depth, max_depth)

\* a and b of a compartment for its mix of gases: n and h are the nitrogen
\* and the helium coefficient (1e-4), w the helium share of the load;
\* (n * load_n2 + h * load_he) / (load_n2 + load_he), 1e-6
WeightedCoef(n, h, w) == 100 * n + Mul6(100 * (h - n), w)

\* ((p_comp - a * gf) / (gf / b - gf + 1) - 1) * 10
CompartmentCeiling(p_comp, a, b, gf) ==
    (Div6(p_comp - Mul6(a, gf), Div6(gf, b) - gf + 1000000) - 1000000) * 10

CeilingOf(c, p_comp, w, gf) ==
    CompartmentCeiling(p_comp,
                       WeightedCoef(ZH_L16_N2_a[c], ZH_L16_He_a[c], w),
                       WeightedCoef(ZH_L16_N2_b[c], ZH_L16_He_b[c], w), gf)

CeilingsAt(load_ig, gf) ==
    [c \in Compartments |->
        CeilingOf(c, load_ig.N2[c] + load_ig.He[c],
                  Div6(load_ig.He[c], load_ig.N2[c] + load_ig.He[c]), gf)]

\* Profile._calculate_ceilings(ip): the 16 ceilings of a point, micrometres
calculate_ceilings(load_ig, depth, wps, params) ==
    CeilingsAt(load_ig, GradientFactor(depth, MaxDepth(wps), params))

\* gf / (1. - p_max) raises ZeroDivisionError when no waypoint is below 0 m
CeilingsRaise(wps) == MaxDepth(wps) = 0

\* np.max(self.ceilings)
MaxCeiling(ceilings) ==
    LET RECURSIVE Scan(_, _)
        Scan(i, m) ==
            IF i > 16 THEN m
            ELSE Scan(i + 1, IF ceilings[i] > m THEN ceilings[i] ELSE m)
    IN  Scan(2, ceilings[1])

\* the largest stored value, not raised to 0
RawCeiling(ip) == MaxCeiling(ip.ceilings)

\* IntegrationPoint.ceiling
ceiling(ip) == IF MaxCeiling(ip.ceilings) > 0 THEN MaxCeiling(ip.ceilings) ELSE 0

----------------------------------------------------------------------------
(* Tank pressure, oxygen toxicity                                          *)

\* the consumption deducted from every tank, in use or not
DeductFromAll(depth, prev_ip, sac, tanks) ==
    LET rmv         == (sac * (p_amb(depth) + p_amb(prev_ip.waypoint.depth))) \div 2
        bar_min     == rmv \div tanks[prev_ip.waypoint.tank + 1].size
        consumption == MulDivU(bar_min, prev_ip.waypoint.duration.ds, 600)
    IN  [i \in 1..Len(prev_ip.tank_pressure) |->
            prev_ip.tank_pressure[i] - consumption]

\* Profile._calculate_tank_pressure(ip, prev_ip, sac): micro-bar per tank
calculate_tank_pressure(depth, prev_ip, sac, tanks) ==
    LET rmv         == (sac * (p_amb(depth) + p_amb(prev_ip.waypoint.depth))) \div 2
        bar_min     == rmv \div tanks[prev_ip.waypoint.tank + 1].size
        consumption == MulDivU(bar_min, prev_ip.waypoint.duration.ds, 600)
    IN  [i \in 1..Len(prev_ip.tank_pressure) |->
            IF i = prev_ip.waypoint.tank + 1
            THEN prev_ip.tank_pressure[i] - consumption
            ELSE prev_ip.tank_pressure[i]]

\* the ppO2 at both ends of a step: tank of prev_ip at its depth, tank of ip
\* at its depth (1e-4 bar)
PpO2Ini(prev_ip, tanks) ==
    ppO2(tanks[prev_ip.waypoint.tank + 1].gas, prev_ip.waypoint.depth)

PpO2End(depth, tank, tanks) == ppO2(tanks[tank + 1].gas, depth)

\* Profile._calculate_otu raises ZeroDivisionError
OtuRaises(depth, tank, prev_ip, tanks) ==
    LET ini == PpO2Ini(prev_ip, tanks)
        end == PpO2End(depth, tank, tanks)
    IN  IF depth = prev_ip.waypoint.depth
        THEN ini = 5000
        ELSE /\ Max2(ini, end) >= 5000
             /\ \/ ini = end
                \/ Max2(5000, ini) = Max2(5000, end)

\* otu / (pp_o2_end - pp_o2_ini)
OtuQuot(otu, d) == Sgn(otu) * Sgn(d) * MulDivU(Abs(otu), 10000, Abs(d))

\* exposure_time = segment_time * (max - low) / (max - min), 1e-6 min, with
\* low_pp_o2 = 0.5 if min_pp_o2 < 0.5 else min_pp_o2
ExposureTime(ds, max_pp_o2, min_pp_o2) ==
    MulDivU(Div6(max_pp_o2 - Max2(min_pp_o2, 5000), max_pp_o2 - min_pp_o2),
            ds, 600)

\* lines 727-732, with pp_o2_ini and pp_o2_end already raised to 0.5
OtuSlope(exposure_time, ini, end) ==
    OtuQuot(Mul6(RoundDiv(3 * exposure_time, 11),
                 Pow6(200 * (end - 5000), 11, 6)
                 - Pow6(200 * (ini - 5000), 11, 6)),
            end - ini)

OtuOf(ds, ini, end, level) ==
    IF level
    THEN IF ini >= 5000
         THEN \* segment_time * pow(0.5 / (pp_o2_ini - 0.5), -5. / 6.)
              MulDivU(Pow6(Div6(5000, ini - 5000), -5, 6), ds, 600)
         ELSE 0
    ELSE IF Max2(ini, end) < 5000 THEN 0
    ELSE OtuSlope(ExposureTime(ds, Max2(ini, end), Min2(ini, end)),
                  Max2(5000, ini), Max2(5000, end))

\* Profile._calculate_otu(ip, prev_ip), 1e-6 OTU
calculate_otu(depth, tank, prev_ip, tanks) ==
    OtuOf(prev_ip.waypoint.duration.ds, PpO2Ini(prev_ip, tanks),
          PpO2End(depth, tank, tanks), depth = prev_ip.waypoint.depth)

\* the NOAA line of pp_o2_ini: the first interval that holds it, else m = b = 0
CnsEquation(ini) ==
    LET RECURSIVE Scan(_)
        Scan(i) ==
            IF i > Len(noaa_cns_equations) THEN <<0, 0>>
            ELSE IF /\ ini >= noaa_cns_equations[i][1]
                    /\ ini <= noaa_cns_equations[i][2]
                 THEN <<noaa_cns_equations[i][3], noaa_cns_equations[i][4]>>
                 ELSE Scan(i + 1)
    IN  Scan(1)

\* t_lim = m * pp_o2_ini + b, 1e-4 min
CnsTLim(ini) == CnsEquation(ini)[1] * ini + 10000 * CnsEquation(ini)[2]

\* Profile._calculate_cns raises (ZeroDivisionError, or ValueError of log(0))
CnsRaises(depth, tank, prev_ip, tanks) ==
    LET ini == PpO2Ini(prev_ip, tanks)
        end == PpO2End(depth, tank, tanks)
        m   == CnsEquation(ini)[1]
    IN  /\ ini >= 5000
        /\ end >= 5000
        /\ \/ CnsTLim(ini) = 0
           \/ /\ depth # prev_ip.waypoint.depth
              /\ \/ CnsTLim(ini) + m * (end - ini) = 0
                 \/ m * (end - ini) = 0

\* segment_time / t_lim
CnsLevel(ds, t_lim) == Sgn(t_lim) * MulDiv(50 * ds, 1000000, 3 * Abs(t_lim))

\* lg / (m * k), with mk = m * k * segment_time
CnsQuot(lg, ds, mk) == Sgn(lg) * Sgn(mk) * MulDiv(Abs(lg), 50 * ds, 3 * Abs(mk))

\* (log|t_lim + m k t| - log|t_lim|) / (m k),
\* k = (pp_o2_end - pp_o2_ini) / segment_time
CnsSlope(ds, t_lim, mk) ==
    CnsQuot(Ln6(Div6(Abs(t_lim + mk), Abs(t_lim))), ds, mk)

CnsOf(ds, ini, end, level) ==
    IF ini < 5000 \/ end < 5000 THEN 0
    ELSE IF level THEN CnsLevel(ds, CnsTLim(ini))
    ELSE CnsSlope(ds, CnsTLim(ini), CnsEquation(ini)[1] * (end - ini))

\* Profile._calculate_cns(ip, prev_ip), 1e-6 (fraction of the limit)
calculate_cns(depth, tank, prev_ip, tanks) ==
    CnsOf(prev_ip.waypoint.duration.ds, PpO2Ini(prev_ip, tanks),
          PpO2End(depth, tank, tanks), depth = prev_ip.waypoint.depth)

----------------------------------------------------------------------------
(* Stops and tanks                                                         *)

\* Profile._calculate_next_deco_stop(ceiling): ceiling in micrometres,
\* the stop in decimetres
calculate_next_deco_stop(ceil_um, params) ==
    LET incr == params.stop_depth_incr
        last == params.last_stop_depth
        out  == CeilDiv(ceil_um, incr * 100000) * incr
    IN  IF (out <= last \/ out - last < incr) /\ ceil_um > 0
        THEN IF ceil_um < last * 100000 THEN last ELSE out + incr
        ELSE out

\* the last tank that holds oxygen, whatever its MOD
SelectLastTank(depth, tanks) ==
    LET RECURSIVE Scan(_, _)
        Scan(i, tank) ==
            IF i > Len(tanks) THEN tank
            ELSE Scan(i + 1, IF tanks[i].gas.O2 > 0 THEN i - 1 ELSE tank)
    IN  Scan(1, 0)

\* Profile._select_tank(depth, pp_o2 = 1.6): max_o2 is never assigned in the
\* loop, so it is 0 in every comparison
select_tank(depth, tanks) ==
    LET RECURSIVE Scan(_, _, _)
        Scan(i, tank, max_o2) ==
            IF i > Len(tanks) THEN tank
            ELSE IF tanks[i].gas.O2 > max_o2 /\ ModAtLeast(tanks[i].gas, 16, depth)
                 THEN Scan(i + 1, i - 1, max_o2)
                 ELSE Scan(i + 1, tank, max_o2)
    IN  Scan(1, 0, 0)

\* self._params == 'depth' (line 679): a Parameters object compared with a
\* string, which is never equal
ParamsIsDepth(params) == FALSE

\* Profile._calculate_next_gas_stop(depth, pp_o2 = 1.6), micrometres
calculate_next_gas_stop(depth, tanks, params) ==
    LET RECURSIVE Scan(_, _)
        Scan(i, out) ==
            IF i > Len(tanks) THEN out
            ELSE IF /\ DeeperThanMod(tanks[i].gas, 16, depth)
                    /\ ModUm(tanks[i].gas, 16) > out
                 THEN Scan(i + 1, ModUm(tanks[i].gas, 16))
                 ELSE Scan(i + 1, out)
    IN  IF ParamsIsDepth(params) THEN Scan(1, 0) ELSE 0

----------------------------------------------------------------------------
(* Waypoint normalization: Profile._complete_waypoints                     *)

\* the duration of prev_wp alone, its runtime left out
DurationOnly(prev_wp) == TimeM(prev_wp.duration.ds)

\* runtime of the waypoint after prev_wp:
\* prev_wp.runtime.minutes + prev_wp.duration.minutes
NextRuntime(prev_wp) == TimeM(prev_wp.runtime.ds + prev_wp.duration.ds)

\* the first realized waypoints with a descent that takes no time
DescentInNoTime(wps, desc, params) ==
    LET time_to_bottom == TimeM(0)
    IN  IF wps[1].depth # 0 /\ desc
        THEN <<Waypoint(0, time_to_bottom, TimeM(0), 0),
               Waypoint(wps[1].depth, wps[1].duration, time_to_bottom, 0)>>
        ELSE <<Waypoint(wps[1].depth, wps[1].duration, TimeM(0), 0)>>

\* lines 360-368: the first realized waypoints
FirstWaypoints(wps, desc, params) ==
    LET time_to_bottom == TimeM(RoundDiv(wps[1].depth * 600, params.v_desc))
    IN  IF wps[1].depth # 0 /\ desc
        THEN <<Waypoint(0, time_to_bottom, TimeM(0), 0),
               Waypoint(wps[1].depth, wps[1].duration, time_to_bottom, 0)>>
        ELSE <<Waypoint(wps[1].depth, wps[1].duration, TimeM(0), 0)>>

\* lines 370-371: a lone waypoint gets a terminal waypoint of duration 0
WithTerminal(wps) ==
    IF Len(wps) = 1
    THEN Append(wps, Waypoint(wps[1].depth, TimeM(0),
                              TimeM(wps[1].runtime.ds + wps[1].duration.ds), 0))
    ELSE wps

\* lines 373-390: one pass of the loop over wps[1:], idx counted from 1;
\* n is len(waypoints), the length of the caller's list
RECURSIVE CompleteFrom(_, _, _, _, _)
CompleteFrom(wps, idx, n, params, acc) ==
    IF idx + 1 > Len(wps) THEN acc
    ELSE LET wp      == wps[idx + 1]
             prev_wp == acc[Len(acc)]
             transit ==
                 IF wp.depth > prev_wp.depth
                 THEN <<Waypoint(prev_wp.depth,
                                 TimeM(RoundDiv((wp.depth - prev_wp.depth) * 600,
                                                params.v_desc)),
                                 NextRuntime(prev_wp), 0)>>
                 ELSE IF wp.depth < prev_wp.depth
                 THEN <<Waypoint(prev_wp.depth,
                                 TimeM(RoundDiv((prev_wp.depth - wp.depth) * 600,
                                                params.v_asc)),
                                 NextRuntime(prev_wp), 0)>>
                 ELSE <<>>
             acc1     == acc \o transit
             duration == IF idx = n - 1 THEN TimeM(0) ELSE wp.duration
         IN  CompleteFrom(wps, idx + 1, n, params,
                          Append(acc1, Waypoint(wp.depth, duration,
                                                NextRuntime(acc1[Len(acc1)]), 0)))

complete_waypoints(wps, desc, params) ==
    CompleteFrom(WithTerminal(wps), 1, Len(wps), params,
                 FirstWaypoints(wps, desc, params))

\* a division by a rate of 0 in _complete_waypoints (ZeroDivisionError)
CompleteRaises(wps, desc, params) ==
    \/ wps[1].depth # 0 /\ params.v_desc = 0
    \/ \E i \in 2..Len(wps) :
          \/ wps[i].depth > wps[i - 1].depth /\ params.v_desc = 0
          \/ wps[i].depth < wps[i - 1].depth /\ params.v_asc = 0

----------------------------------------------------------------------------
(* Profile._interpolate_depth                                              *)

\* [err |-> "" or the exception, depth |-> the depth returned]
interpolate_depth(wps, t) ==
    LET RECURSIVE Scan(_, _)
        Scan(i, wp_0) ==
            IF i > Len(wps)
            THEN IF wp_0 = 0 THEN [err |-> "InterpolationError", depth |-> 0]
                 ELSE LET a == wps[wp_0]
                          b == wps[wp_0 + 1]
                          span == b.runtime.sec - a.runtime.sec
                      IN  IF span = 0
                          THEN [err |-> "ZeroDivisionError", depth |-> 0]
                          ELSE [err |-> "",
                                depth |-> RoundDiv((b.depth - a.depth)
                                                     * (t - a.runtime.sec)
                                                   + a.depth * span, span)]
            ELSE IF t = wps[i].runtime.sec
                 THEN [err |-> "", depth |-> wps[i].depth]
            ELSE IF t > wps[i].runtime.sec
                 THEN IF i = Len(wps)
                      THEN [err |-> "IndexError", depth |-> 0]
                      ELSE Scan(i + 1, i)
            ELSE Scan(i + 1, wp_0)
    IN  Scan(1, 0)

----------------------------------------------------------------------------
(* Configurations                                                          *)

\* Gas(o2, he)
Gas(o2, he) == [O2 |-> o2, He |-> he]

\* Tank(start_pressure, gas, size): pressure in micro-bar, size in litres
Tank(start_pressure, gas, size) ==
    [gas |-> gas, size |-> size, start_pressure |-> start_pressure * 1000000]

\* Parameters(): the defaults of the dataclass.  Depths in decimetres, rates
\* in decimetres per minute, safety_stop_duration in 1/600 min, gradient
\* factors in 1e-6, gas_switch_duration in seconds.
Parameters ==
    [last_stop_depth |-> 30, stop_depth_incr |-> 30,
     safety_stop_depth |-> 50, safety_stop_duration |-> 1800,
     v_asc |-> 100, v_desc |-> 200,
     own_descent_sac |-> 20, own_bottom_sac |-> 20,
     own_ascent_sac |-> 17, buddy_ascent_sac |-> 17,
     gf_high |-> 1000000, gf_low |-> 1000000,
     calc_ascent |-> TRUE, calc_descent |-> TRUE,
     deco_stops |-> TRUE, safety_stop |-> TRUE,
     gas_switch |-> "depth", gas_switch_duration |-> 60,
     dt |-> TimeS(5)]

\* a waypoint as the caller writes it: Waypoint(depth, duration in minutes)
UserWaypoint(depth, minutes) == Waypoint(depth, TimeM(600 * minutes), TimeM(0), 0)

Air   == Gas(21, 0)
EAN50 == Gas(50, 0)

\* IntegrationPoint(waypoint): the fields as the constructor leaves them,
\* load_ig['N2'] = 0.79 * (1 - pw)
IntegrationPoint(waypoint) ==
    [waypoint |-> waypoint,
     tank_pressure |-> <<>>,
     load_ig |-> [N2 |-> [c \in Compartments |-> RoundDiv(79 * (1000000 - pw), 100)],
                  He |-> [c \in Compartments |-> 0]],
     ceilings |-> [c \in Compartments |-> 1000000],
     otu |-> 0, otu_cum |-> 0, cns |-> 0, cns_cum |-> 0]

\* the point with the values computed for it
MakePoint(new_wp, prev, load, wps, params, tank_pressure, cns, otu) ==
    [waypoint |-> new_wp,
     tank_pressure |-> tank_pressure,
     load_ig |-> load,
     ceilings |-> calculate_ceilings(load, new_wp.depth, wps, params),
     otu |-> otu, otu_cum |-> prev.otu_cum + otu,
     cns |-> cns, cns_cum |-> prev.cns_cum + cns]

\* the statements every loop runs for a point that has a predecessor:
\* load_ig, ceilings, tank_pressure, cns, cns_cum, otu, otu_cum of the point
\* at new_wp, with sac the consumption rate of the phase
NextPoint(new_wp, prev, sac, wps, tanks, params) ==
    MakePoint(new_wp, prev, calculate_compartments(new_wp.depth, prev, tanks),
              wps, params,
              calculate_tank_pressure(new_wp.depth, prev, sac, tanks),
              calculate_cns(new_wp.depth, new_wp.tank, prev, tanks),
              calculate_otu(new_wp.depth, new_wp.tank, prev, tanks))

\* the exception those statements raise, "" when they raise none
PointRaises(new_wp, prev, wps, tanks) ==
    IF prev.waypoint.duration.ds = 0 THEN "ZeroDivisionError"
    ELSE IF CeilingsRaise(wps) THEN "ZeroDivisionError"
    ELSE IF CnsRaises(new_wp.depth, new_wp.tank, prev, tanks) THEN "ZeroDivisionError"
    ELSE IF OtuRaises(new_wp.depth, new_wp.tank, prev, tanks) THEN "ZeroDivisionError"
    ELSE ""

\* round(prev_depth - v_asc * dt.minutes, 1)
AscentDepth(prev_depth, params) ==
    RoundDiv(prev_depth * 60 - params.v_asc * params.dt.sec, 60)

Last(seq) == seq[Len(seq)]

\* lines 442-444, 481-483, 536-538: the segment s closes the last waypoint and
\* opens the next one
CommitWaypoints(s, wps, params) ==
    LET duration == Last(s).waypoint.runtime.sec - s[1].waypoint.runtime.sec
                    + params.dt.sec
        closed   == [wps EXCEPT ![Len(wps)].duration = TimeS(duration)]
    IN  Append(closed, Waypoint(Last(s).waypoint.depth, TimeM(0),
                                Last(s).waypoint.runtime, Last(s).waypoint.tank))

----------------------------------------------------------------------------
(* The calls Profile(waypoints, tanks, params) that are explored           *)

Scenario(name, wps, tanks, params) ==
    [name |-> name, waypoints |-> wps, tanks |-> tanks, params |-> params]

AirTank   == Tank(200, Air, 15)
EAN50Tank == Tank(200, EAN50, 15)

Scenarios ==
    { \* 10 m for 2 min on air, every default
      Scenario("air10", <<UserWaypoint(100, 2)>>, <<AirTank>>, Parameters),
      \* the same without a safety stop
      Scenario("air10direct", <<UserWaypoint(100, 2)>>, <<AirTank>>,
               [Parameters EXCEPT !.safety_stop = FALSE]),
      \* 45 m for 15 min, air and EAN50, dt = 30 s
      Scenario("deco45", <<UserWaypoint(450, 15)>>, <<AirTank, EAN50Tank>>,
               [Parameters EXCEPT !.dt = TimeS(30)]),
      \* 45 m for 20 min, air and EAN50, gradient factors 0.1, dt = 60 s
      Scenario("deco45gf", <<UserWaypoint(450, 20)>>, <<AirTank, EAN50Tank>>,
               [Parameters EXCEPT !.dt = TimeS(60), !.gf_high = 100000,
                                  !.gf_low = 100000]),
      \* 20 m for 5 min, then 10 m for 5 min, then the ascent
      Scenario("multi", <<UserWaypoint(200, 5), UserWaypoint(100, 5),
                          UserWaypoint(100, 0)>>, <<AirTank>>,
               [Parameters EXCEPT !.dt = TimeS(30)]),
      \* 20 m for 3 min, then 10 m for 2 min, dt = 30 s
      Scenario("two", <<UserWaypoint(200, 3), UserWaypoint(100, 2)>>,
               <<AirTank>>, [Parameters EXCEPT !.dt = TimeS(30)]),
      \* 10 m, down to 20 m, up to 15 m, a minute each, no descent leg from
      \* the surface, dt = 60 s
      Scenario("nodesc", <<UserWaypoint(100, 1), UserWaypoint(200, 1),
                           UserWaypoint(150, 1)>>, <<AirTank>>,
               [Parameters EXCEPT !.dt = TimeS(60), !.calc_descent = FALSE]),
      \* 45 m for 12 min, air and EAN50, gradient factors 0.5 and 1.0, the
      \* switch policy 'stop', dt = 30 s
      Scenario("stop45", <<UserWaypoint(450, 12)>>, <<AirTank, EAN50Tank>>,
               [Parameters EXCEPT !.dt = TimeS(30), !.gf_low = 500000,
                                  !.gas_switch = "stop"]),
      \* the same under the policy 'manual', dt = 60 s
      Scenario("manual45", <<UserWaypoint(450, 12)>>, <<AirTank, EAN50Tank>>,
               [Parameters EXCEPT !.dt = TimeS(60), !.gf_low = 500000,
                                  !.gas_switch = "manual"]),
      \* 20 m for 3 min, then back at the surface, dt = 60 s
      Scenario("surface", <<UserWaypoint(200, 3), UserWaypoint(0, 2)>>,
               <<AirTank>>, [Parameters EXCEPT !.dt = TimeS(60)]),
      \* 22 m for 4 min on EAN50, dt = 120 s
      Scenario("ean50", <<UserWaypoint(220, 4)>>, <<EAN50Tank>>,
               [Parameters EXCEPT !.dt = TimeS(120)]),
      \* 45 m for 20 min on air, a stop increment of -3 m
      Scenario("backward", <<UserWaypoint(450, 20)>>, <<AirTank>>,
               [Parameters EXCEPT !.stop_depth_incr = -30]),
      \* 20 m for 15 min on air, gradient factors 0.3 and 1.0, dt = 30 s
      Scenario("gflow", <<UserWaypoint(200, 15)>>, <<AirTank>>,
               [Parameters EXCEPT !.dt = TimeS(30), !.gf_low = 300000]),
      \* 3 m for 2 min on air, above the safety stop, dt = 30 s
      Scenario("shallow", <<UserWaypoint(30, 2)>>, <<AirTank>>,
               [Parameters EXCEPT !.dt = TimeS(30)]),
      \* an ascent rate of 0.5 m/min with dt = 5 s
      Scenario("slow", <<UserWaypoint(100, 2)>>, <<AirTank>>,
               [Parameters EXCEPT !.v_asc = 5]),
      \* an ascent rate of 0
      Scenario("zero", <<UserWaypoint(100, 2)>>, <<AirTank>>,
               [Parameters EXCEPT !.v_asc = 0]) }

\* the longest list of points one loop is followed for
MaxPoints == 60

\* no integration point yet
NoPoint == IntegrationPoint(Waypoint(0, TimeM(0), TimeM(0), 0))

----------------------------------------------------------------------------
(* State                                                                   *)

VARIABLES
    scen,            \* the arguments of Profile(...)
    pc,              \* the statement of __init__ and its callees that runs next
    err,             \* the exception that ended the construction, "" if none
    waypoints,       \* self._waypoints
    ips,             \* self._integration_points
    wpi,             \* _calculate_bottom: the waypoint of the for loop (from 1)
    t,               \* the local t of the function that runs
    prev_ip,         \* the local prev_ip of the function that runs
    out,             \* the local out of the function that runs
    segments,        \* the local segments of the regular or the deco ascent
    frame,           \* _calculate_direct_ascent: depth, append and the caller
    timer,           \* safety_stop_timer, or stop_time of _add_deco_stop
    stop_depth,      \* _add_deco_stop: its argument depth
    next_deco_stop,  \* the deco ascent's (and _add_deco_stop's) next_deco_stop
    next_gas_stop,   \* the deco ascent's next_gas_stop (micrometres)
    deco_dive,       \* __init__: deco_dive
    earlier,         \* the Profile built before from the same arguments
    call,            \* a method called on its own: its name, self and arguments
    ret              \* what that call returned or raised

\* what the caller holds beside the construction that runs
aside == <<earlier, call, ret>>

vars == <<scen, pc, err, waypoints, ips, wpi, t, prev_ip, out, segments, frame,
          timer, stop_depth, next_deco_stop, next_gas_stop, deco_dive, aside>>

params == scen.params
tanks  == scen.tanks

\* next_stop = max([next_deco_stop, next_gas_stop]), micrometres
next_stop == Max2(next_deco_stop * 100000, next_gas_stop)

NoFrame == [depth |-> 0, append |-> FALSE, caller |-> "none"]

\* no Profile built before, no method called on its own
NoProfile == [built |-> FALSE]
NoCall    == [fn |-> ""]
NoReturn  == [raised |-> "", value |-> 0]

\* the locals of __init__ and its callees before they run
Idle ==
    /\ err = ""
    /\ waypoints = <<>>
    /\ ips = <<>>
    /\ wpi = 1
    /\ t = 0
    /\ prev_ip = NoPoint
    /\ out = <<>>
    /\ segments = <<>>
    /\ frame = NoFrame
    /\ timer = 0
    /\ stop_depth = 0
    /\ next_deco_stop = 0
    /\ next_gas_stop = 0
    /\ deco_dive = FALSE

\* __init__ before line 262
Enter ==
    /\ pc = "complete_waypoints"
    /\ Idle

Init ==
    /\ scen \in Scenarios
    /\ Enter
    /\ earlier = NoProfile
    /\ call = NoCall
    /\ ret = NoReturn

\* an exception leaves __init__: the object is never returned
Raise(kind) ==
    /\ pc' = "error"
    /\ err' = kind

----------------------------------------------------------------------------
(* __init__, line 262: self._complete_waypoints(waypoints, calc_descent)   *)

\* the caller's list with the terminal waypoint of line 371 appended to it
AliasedWaypoints(user_wps) == WithTerminal(user_wps)

\* the caller's list after _complete_waypoints: line 359 copies it into wps,
\* and line 371 appends to the copy
CallerWaypoints(user_wps) == user_wps

CompleteWaypoints ==
    /\ pc = "complete_waypoints"
    /\ IF CompleteRaises(scen.waypoints, params.calc_descent, params)
       THEN Raise("ZeroDivisionError") /\ UNCHANGED waypoints
       ELSE /\ waypoints' = complete_waypoints(scen.waypoints,
                                               params.calc_descent, params)
            /\ pc' = "bottom"
            /\ err' = err
    /\ scen' = [scen EXCEPT !.waypoints = CallerWaypoints(scen.waypoints)]
    /\ UNCHANGED aside
    /\ UNCHANGED <<ips, wpi, t, prev_ip, out, segments, frame, timer,
                   stop_depth, next_deco_stop, next_gas_stop, deco_dive>>

----------------------------------------------------------------------------
(* _calculate_bottom                                                       *)

\* wp.runtime.seconds + wp.duration.seconds of the loop's waypoint
WaypointEnd(wp) == wp.runtime.sec + wp.duration.sec

\* lines 401-402 and 417 for the first point: no predecessor
FirstPoint(first, wps) ==
    [first EXCEPT
        !.tank_pressure = [i \in 1..Len(tanks) |-> tanks[i].start_pressure],
        !.ceilings = calculate_ceilings(first.load_ig, first.waypoint.depth,
                                        wps, params)]

\* lines 407-410: the rate of the step from prev to depth
BottomSac(prev, depth) ==
    IF prev.waypoint.depth < depth
    THEN params.own_descent_sac
    ELSE params.own_bottom_sac

\* lines 399-419 for the waypoint new_wp at t
BottomTake(new_wp) ==
    IF ips = <<>>
    THEN IF CeilingsRaise(waypoints)
         THEN Raise("ZeroDivisionError") /\ UNCHANGED <<ips, t>>
         ELSE /\ ips' = <<FirstPoint(IntegrationPoint(new_wp), waypoints)>>
              /\ t' = t + params.dt.sec
              /\ UNCHANGED <<pc, err>>
    ELSE IF PointRaises(new_wp, Last(ips), waypoints, tanks) # ""
         THEN /\ Raise(PointRaises(new_wp, Last(ips), waypoints, tanks))
              /\ UNCHANGED <<ips, t>>
         ELSE /\ ips' = Append(ips, NextPoint(new_wp, Last(ips),
                                              BottomSac(Last(ips), new_wp.depth),
                                              waypoints, tanks, params))
              /\ t' = t + params.dt.sec
              /\ UNCHANGED <<pc, err>>

BottomAt(d) ==
    IF d.err # ""
    THEN Raise(d.err) /\ UNCHANGED <<ips, t>>
    ELSE BottomTake(Waypoint(d.depth, params.dt, TimeS(t), 0))

\* one pass of the while loop: the point at t
BottomStep ==
    /\ pc = "bottom"
    /\ wpi <= Len(waypoints)
    /\ t <= WaypointEnd(waypoints[wpi])
    /\ BottomAt(interpolate_depth(waypoints, t))
    /\ UNCHANGED aside
    /\ UNCHANGED <<scen, waypoints, wpi, prev_ip, out, segments, frame, timer,
                   stop_depth, next_deco_stop, next_gas_stop, deco_dive>>

\* the for loop moves to the next waypoint
BottomNextWaypoint ==
    /\ pc = "bottom"
    /\ wpi <= Len(waypoints)
    /\ t > WaypointEnd(waypoints[wpi])
    /\ wpi' = wpi + 1
    /\ UNCHANGED aside
    /\ UNCHANGED <<scen, pc, err, waypoints, ips, t, prev_ip, out, segments,
                   frame, timer, stop_depth, next_deco_stop, next_gas_stop,
                   deco_dive>>

----------------------------------------------------------------------------
(* _calculate_direct_ascent(depth, ip, append)                             *)

\* the call: prev_ip = ip, t = ip.waypoint.runtime.seconds, out = []
CallDirectAscent(depth, ip, append, caller) ==
    /\ frame' = [depth |-> depth, append |-> append, caller |-> caller]
    /\ prev_ip' = ip
    /\ t' = ip.waypoint.runtime.sec
    /\ out' = <<>>
    /\ pc' = "direct_ascent"

\* __init__, line 264: the provisional ascent to the surface
ProbeStart ==
    /\ pc = "bottom"
    /\ wpi > Len(waypoints)
    /\ CallDirectAscent(0, Last(ips), FALSE, "probe")
    /\ UNCHANGED aside
    /\ UNCHANGED <<scen, err, waypoints, ips, wpi, segments, timer, stop_depth,
                   next_deco_stop, next_gas_stop, deco_dive>>

\* the waypoint of the next point of an ascent: one step of dt above prev
AscentWaypoint(prev) ==
    Waypoint(AscentDepth(prev.waypoint.depth, params), params.dt,
             TimeS(t + params.dt.sec), prev.waypoint.tank)

\* the waypoint of the next point held at depth on tank
HoldWaypoint(depth, tank) ==
    Waypoint(depth, params.dt, TimeS(t + params.dt.sec), tank)

\* the point at new_wp after prev_ip, on the way up
AscentPoint(new_wp) ==
    NextPoint(new_wp, prev_ip, params.own_ascent_sac, waypoints, tanks, params)

AscentRaises(new_wp) == PointRaises(new_wp, prev_ip, waypoints, tanks)

\* lines 427-439: t, prev_ip and out after the pass
DirectAscentTake(raises, new_ip) ==
    IF raises # ""
    THEN Raise(raises) /\ UNCHANGED <<t, prev_ip, out>>
    ELSE /\ t' = t + params.dt.sec
         /\ prev_ip' = new_ip
         /\ out' = Append(out, new_ip)
         /\ UNCHANGED <<pc, err>>

\* one pass of the while loop of _calculate_direct_ascent
DirectAscentStep ==
    /\ pc = "direct_ascent"
    /\ prev_ip.waypoint.depth > frame.depth
    /\ Len(out) < MaxPoints
    /\ DirectAscentTake(AscentRaises(AscentWaypoint(prev_ip)),
                        AscentPoint(AscentWaypoint(prev_ip)))
    /\ UNCHANGED aside
    /\ UNCHANGED <<scen, waypoints, ips, wpi, segments, frame, timer,
                   stop_depth, next_deco_stop, next_gas_stop, deco_dive>>

\* lines 441-445: self._waypoints after the if append: block
AppendedWaypoints(append, s, wps) ==
    IF append THEN CommitWaypoints(s, wps, params) ELSE wps

\* the list with the ascent appended whatever append says
AppendedAlways(append, s, points) ==
    points \o s

\* lines 441-445: self._integration_points after the if append: block
AppendedPoints(append, s, points) ==
    IF append THEN points \o s ELSE points

\* the loop is over
DirectAscentOver ==
    /\ pc = "direct_ascent"
    /\ ~(prev_ip.waypoint.depth > frame.depth)

\* a ceiling above 0 somewhere on the provisional ascent
AnyCeilingPositive(probe) ==
    \E i \in DOMAIN probe : ceiling(probe[i]) > 0

\* __init__, line 264: deco_dive is the test [-1].ceiling > 0. on the list
\* the provisional ascent returned
DecoDive(probe) ==
    ceiling(Last(probe)) > 0

\* __init__, line 264: deco_dive = (...)[-1].ceiling > 0.
ProbeReturn ==
    /\ DirectAscentOver
    /\ frame.caller = "probe"
    /\ IF out = <<>>
       THEN Raise("IndexError") /\ UNCHANGED deco_dive
       ELSE /\ deco_dive' = DecoDive(out)
            /\ pc' = "branch"
            /\ err' = err
    /\ waypoints' = AppendedWaypoints(frame.append, out, waypoints)
    /\ ips' = AppendedPoints(frame.append, out, ips)
    /\ UNCHANGED aside
    /\ UNCHANGED <<scen, wpi, t, prev_ip, out, segments, frame,
                   timer, stop_depth, next_deco_stop, next_gas_stop>>

\* __init__, line 271: the direct ascent that is committed
DirectStart ==
    /\ pc = "branch"
    /\ ~deco_dive
    /\ ~params.safety_stop
    /\ CallDirectAscent(0, Last(ips), TRUE, "init")
    /\ UNCHANGED aside
    /\ UNCHANGED <<scen, err, waypoints, ips, wpi, segments, timer, stop_depth,
                   next_deco_stop, next_gas_stop, deco_dive>>

\* lines 441-447 for the call of line 271 (append is True)
DirectCommit ==
    /\ DirectAscentOver
    /\ frame.caller = "init"
    /\ IF out = <<>>
       THEN Raise("IndexError") /\ UNCHANGED <<waypoints, ips>>
       ELSE /\ waypoints' = AppendedWaypoints(frame.append, out, waypoints)
            /\ ips' = AppendedPoints(frame.append, out, ips)
            /\ pc' = "done"
            /\ err' = err
    /\ UNCHANGED aside
    /\ UNCHANGED <<scen, wpi, t, prev_ip, out, segments, frame, timer,
                   stop_depth, next_deco_stop, next_gas_stop, deco_dive>>

----------------------------------------------------------------------------
(* _calculate_regular_ascent(0., ip)                                       *)

\* __init__, line 269, and lines 451-455: the first direct ascent
RegularStart ==
    /\ pc = "branch"
    /\ ~deco_dive
    /\ params.safety_stop
    /\ segments' = <<>>
    /\ IF 0 > params.safety_stop_depth
       THEN CallDirectAscent(0, Last(ips), FALSE, "regular_last")
       ELSE CallDirectAscent(params.safety_stop_depth, Last(ips), FALSE,
                             "regular_first")
    /\ UNCHANGED aside
    /\ UNCHANGED <<scen, err, waypoints, ips, wpi, timer, stop_depth,
                   next_deco_stop, next_gas_stop, deco_dive>>

\* lines 455-460: the first leg is staged, the safety stop begins
RegularFirstLegReturn ==
    /\ DirectAscentOver
    /\ frame.caller = "regular_first"
    /\ segments' = <<out>>
    /\ IF out = <<>>
       THEN Raise("IndexError") /\ UNCHANGED <<prev_ip, t, timer, out>>
       ELSE /\ prev_ip' = Last(out)
            /\ t' = Last(out).waypoint.runtime.sec
            /\ timer' = 0
            /\ out' = <<>>
            /\ pc' = "safety_stop"
            /\ err' = err
    /\ waypoints' = AppendedWaypoints(frame.append, out, waypoints)
    /\ ips' = AppendedPoints(frame.append, out, ips)
    /\ UNCHANGED aside
    /\ UNCHANGED <<scen, wpi, frame, stop_depth,
                   next_deco_stop, next_gas_stop, deco_dive>>

\* lines 462-474: t, prev_ip, safety_stop_timer and out after the pass
SafetyStopTake(raises, new_ip) ==
    IF raises # ""
    THEN Raise(raises) /\ UNCHANGED <<t, prev_ip, out, timer>>
    ELSE /\ t' = t + params.dt.sec
         /\ prev_ip' = new_ip
         /\ timer' = timer + params.dt.sec
         /\ out' = Append(out, new_ip)
         /\ UNCHANGED <<pc, err>>

\* one pass of the safety-stop loop, lines 461-474
SafetyStopStep ==
    /\ pc = "safety_stop"
    /\ timer < TimeM(params.safety_stop_duration).sec
    /\ SafetyStopTake(
           AscentRaises(HoldWaypoint(params.safety_stop_depth,
                                     prev_ip.waypoint.tank)),
           AscentPoint(HoldWaypoint(params.safety_stop_depth,
                                    prev_ip.waypoint.tank)))
    /\ UNCHANGED aside
    /\ UNCHANGED <<scen, waypoints, ips, wpi, segments, frame, stop_depth,
                   next_deco_stop, next_gas_stop, deco_dive>>

\* lines 475-477: the stop is staged, the last direct ascent begins
SafetyStopOver ==
    /\ pc = "safety_stop"
    /\ ~(timer < TimeM(params.safety_stop_duration).sec)
    /\ segments' = Append(segments, out)
    /\ IF out = <<>>
       THEN Raise("IndexError") /\ UNCHANGED <<frame, prev_ip, t, out>>
       ELSE CallDirectAscent(0, Last(out), FALSE, "regular_last") /\ err' = err
    /\ UNCHANGED aside
    /\ UNCHANGED <<scen, waypoints, ips, wpi, timer, stop_depth,
                   next_deco_stop, next_gas_stop, deco_dive>>

\* lines 453 and 477: the last leg is staged
RegularLastLegReturn ==
    /\ DirectAscentOver
    /\ frame.caller = "regular_last"
    /\ segments' = Append(segments, out)
    /\ pc' = "regular_commit"
    /\ waypoints' = AppendedWaypoints(frame.append, out, waypoints)
    /\ ips' = AppendedPoints(frame.append, out, ips)
    /\ UNCHANGED aside
    /\ UNCHANGED <<scen, err, wpi, t, prev_ip, out, frame,
                   timer, stop_depth, next_deco_stop, next_gas_stop, deco_dive>>

\* one pass of a commit loop (lines 480-484, 535-539) over the staged
\* segments, the first of them first; at is the loop that runs
CommitSegment(at) ==
    IF Head(segments) = <<>>
    THEN Raise("IndexError") /\ UNCHANGED <<waypoints, ips, segments>>
    ELSE /\ waypoints' = CommitWaypoints(Head(segments), waypoints, params)
         /\ ips' = ips \o Head(segments)
         /\ segments' = Tail(segments)
         /\ pc' = IF Tail(segments) = <<>> THEN "done" ELSE at
         /\ err' = err

\* lines 479-484
RegularCommit ==
    /\ pc = "regular_commit"
    /\ segments # <<>>
    /\ CommitSegment("regular_commit")
    /\ UNCHANGED aside
    /\ UNCHANGED <<scen, wpi, t, prev_ip, out, frame, timer, stop_depth,
                   next_deco_stop, next_gas_stop, deco_dive>>

----------------------------------------------------------------------------
(* _calculate_deco_ascent(0., ip) and _add_deco_stop                       *)

\* the test of the outer loop (line 497) for the point the ascent stands at
DecoNext(ip) == IF ip.waypoint.depth > 0 THEN "deco_leg" ELSE "deco_commit"

\* __init__, line 266, and lines 489-497
DecoStart ==
    /\ pc = "branch"
    /\ deco_dive
    /\ prev_ip' = Last(ips)
    /\ next_deco_stop' = calculate_next_deco_stop(ceiling(Last(ips)), params)
    /\ next_gas_stop' = calculate_next_gas_stop(Last(ips).waypoint.depth,
                                                tanks, params)
    /\ t' = Last(ips).waypoint.runtime.sec
    /\ segments' = <<>>
    /\ out' = <<>>
    /\ pc' = DecoNext(Last(ips))
    /\ UNCHANGED aside
    /\ UNCHANGED <<scen, err, waypoints, ips, wpi, frame, timer, stop_depth,
                   deco_dive>>

\* lines 500-516: t, next_deco_stop, prev_ip and out after the pass
DecoAscentTake(raises, new_ip) ==
    IF raises # ""
    THEN Raise(raises) /\ UNCHANGED <<t, prev_ip, out, next_deco_stop>>
    ELSE /\ t' = t + params.dt.sec
         /\ next_deco_stop' = calculate_next_deco_stop(ceiling(new_ip), params)
         /\ prev_ip' = new_ip
         /\ out' = Append(out, new_ip)
         /\ UNCHANGED <<pc, err>>

\* one pass of the inner loop, lines 499-516
DecoAscentStep ==
    /\ pc = "deco_leg"
    /\ prev_ip.waypoint.depth * 100000 > next_stop
    /\ Len(out) < MaxPoints
    /\ DecoAscentTake(AscentRaises(AscentWaypoint(prev_ip)),
                      AscentPoint(AscentWaypoint(prev_ip)))
    /\ UNCHANGED aside
    /\ UNCHANGED <<scen, waypoints, ips, wpi, segments, frame, timer,
                   stop_depth, next_gas_stop, deco_dive>>

\* _add_deco_stop entered with t one step late
EnterDecoStopLate(depth, from, nds) ==
    /\ stop_depth' = depth
    /\ prev_ip' = from
    /\ t' = from.waypoint.runtime.sec + params.dt.sec
    /\ out' = <<>>
    /\ next_deco_stop' = nds
    /\ timer' = params.dt.sec
    /\ pc' = IF ceiling(from) < nds * 100000 THEN "deco_hold" ELSE "deco_pad"
    /\ err' = err

\* lines 604-609: _add_deco_stop(depth, from) up to the first test of its
\* hold loop; nds is its next_deco_stop
EnterDecoStop(depth, from, nds) ==
    /\ stop_depth' = depth
    /\ prev_ip' = from
    /\ t' = from.waypoint.runtime.sec
    /\ out' = <<>>
    /\ next_deco_stop' = nds
    /\ timer' = params.dt.sec
    /\ pc' = IF ceiling(from) < nds * 100000 THEN "deco_hold" ELSE "deco_pad"
    /\ err' = err

\* lines 521-532 for the staged segments segs, from = segments[-1][-1]
DecoLegNext(from) ==
    IF next_deco_stop > 0 /\ next_deco_stop * 100000 > next_gas_stop
    THEN EnterDecoStop(next_deco_stop, from,
                       calculate_next_deco_stop(ceiling(from), params))
    ELSE /\ prev_ip' = from
         /\ t' = from.waypoint.runtime.sec
         /\ out' = <<>>
         /\ pc' = DecoNext(from)
         /\ UNCHANGED <<err, timer, stop_depth, next_deco_stop>>

DecoLegStage(segs) ==
    /\ segments' = segs
    /\ IF segs = <<>>
       THEN /\ Raise("IndexError")
            /\ UNCHANGED <<t, prev_ip, out, timer, stop_depth, next_deco_stop>>
       ELSE DecoLegNext(Last(Last(segs)))

\* lines 518-532: the leg is staged; with a deco stop ahead _add_deco_stop is
\* entered, else the outer loop goes on.  next_gas_stop is 0 (see
\* ParamsIsDepth), so the test of line 526 is false.
DecoLegEnd ==
    /\ pc = "deco_leg"
    /\ ~(prev_ip.waypoint.depth * 100000 > next_stop)
    /\ DecoLegStage(IF out # <<>> THEN Append(segments, out) ELSE segments)
    /\ UNCHANGED aside
    /\ UNCHANGED <<scen, waypoints, ips, wpi, frame, next_gas_stop, deco_dive>>

\* the tank of a point held at a stop when the policy is not looked at
StopTankAnyPolicy(prev) ==
    IF timer >= params.gas_switch_duration - 1
    THEN select_tank(stop_depth, tanks)
    ELSE prev.waypoint.tank

\* lines 615-616 and 639-640: the tank of a point held at a stop
StopTank(prev) ==
    IF /\ params.gas_switch \in {"stop", "depth"}
       /\ timer >= params.gas_switch_duration - 1
    THEN select_tank(stop_depth, tanks)
    ELSE prev.waypoint.tank

\* lines 623-630 and the next test of the hold loop: nds is the
\* next_deco_stop of the new point
DecoHoldNext(new_ip, nds) ==
    /\ next_deco_stop' = nds
    /\ IF nds < stop_depth
       THEN timer' = timer /\ pc' = "deco_pad"
       ELSE /\ timer' = timer + params.dt.sec
            /\ pc' = IF ceiling(new_ip) < nds * 100000
                     THEN "deco_hold" ELSE "deco_pad"

DecoHoldTake(raises, new_ip) ==
    IF raises # ""
    THEN Raise(raises) /\ UNCHANGED <<t, prev_ip, out, next_deco_stop, timer>>
    ELSE /\ t' = t + params.dt.sec
         /\ prev_ip' = new_ip
         /\ out' = Append(out, new_ip)
         /\ err' = err
         /\ DecoHoldNext(new_ip, calculate_next_deco_stop(ceiling(new_ip), params))

\* one pass of the hold loop of _add_deco_stop, lines 609-630
DecoStopHoldStep ==
    /\ pc = "deco_hold"
    /\ DecoHoldTake(AscentRaises(HoldWaypoint(stop_depth, StopTank(prev_ip))),
                    AscentPoint(HoldWaypoint(stop_depth, StopTank(prev_ip))))
    /\ UNCHANGED aside
    /\ UNCHANGED <<scen, waypoints, ips, wpi, segments, frame, stop_depth,
                   next_gas_stop, deco_dive>>

\* lines 633-648: t, prev_ip, stop_time and out after the pass
DecoPadTake(raises, new_ip) ==
    IF raises # ""
    THEN Raise(raises) /\ UNCHANGED <<t, prev_ip, out, timer>>
    ELSE /\ t' = t + params.dt.sec
         /\ prev_ip' = new_ip
         /\ timer' = timer + params.dt.sec
         /\ out' = Append(out, new_ip)
         /\ UNCHANGED <<pc, err>>

\* one pass of the padding loop of _add_deco_stop, lines 632-648
DecoStopPadStep ==
    /\ pc = "deco_pad"
    /\ timer % 60 # 0
    /\ DecoPadTake(AscentRaises(HoldWaypoint(stop_depth, StopTank(prev_ip))),
                   AscentPoint(HoldWaypoint(stop_depth, StopTank(prev_ip))))
    /\ UNCHANGED aside
    /\ UNCHANGED <<scen, waypoints, ips, wpi, segments, frame, stop_depth,
                   next_deco_stop, next_gas_stop, deco_dive>>

\* _add_deco_stop returns (line 650); lines 522-524 and 531-532
DecoStopReturn ==
    /\ pc = "deco_pad"
    /\ timer % 60 = 0
    /\ segments' = Append(segments, out)
    /\ IF out = <<>>
       THEN Raise("IndexError") /\ UNCHANGED <<t, prev_ip, out, next_deco_stop>>
       ELSE /\ next_deco_stop' = calculate_next_deco_stop(ceiling(Last(out)), params)
            /\ prev_ip' = Last(out)
            /\ t' = Last(out).waypoint.runtime.sec
            /\ out' = <<>>
            /\ pc' = DecoNext(Last(out))
            /\ err' = err
    /\ UNCHANGED aside
    /\ UNCHANGED <<scen, waypoints, ips, wpi, frame, timer, stop_depth,
                   next_gas_stop, deco_dive>>

\* lines 534-539
DecoCommit ==
    /\ pc = "deco_commit"
    /\ segments # <<>>
    /\ CommitSegment("deco_commit")
    /\ UNCHANGED aside
    /\ UNCHANGED <<scen, wpi, t, prev_ip, out, frame, timer, stop_depth,
                   next_deco_stop, next_gas_stop, deco_dive>>

----------------------------------------------------------------------------

Next ==
    \/ CompleteWaypoints
    \/ BottomStep
    \/ BottomNextWaypoint
    \/ ProbeStart
    \/ DirectAscentStep
    \/ ProbeReturn
    \/ DirectStart
    \/ DirectCommit
    \/ RegularStart
    \/ RegularFirstLegReturn
    \/ SafetyStopStep
    \/ SafetyStopOver
    \/ RegularLastLegReturn
    \/ RegularCommit
    \/ DecoStart
    \/ DecoAscentStep
    \/ DecoLegEnd
    \/ DecoStopHoldStep
    \/ DecoStopPadStep
    \/ DecoStopReturn
    \/ DecoCommit

Spec == Init /\ [][Next]_vars

----------------------------------------------------------------------------
(* A second Profile from the same arguments                                *)

\* the caller keeps the Profile returned and calls Profile(...) again with
\* the objects it passed the first time
Rebuild ==
    /\ pc = "done"
    /\ ~earlier.built
    /\ earlier' = [built |-> TRUE, waypoints |-> waypoints,
                   integration_points |-> ips]
    /\ pc' = "complete_waypoints"
    /\ waypoints' = <<>>
    /\ ips' = <<>>
    /\ wpi' = 1
    /\ t' = 0
    /\ prev_ip' = NoPoint
    /\ out' = <<>>
    /\ segments' = <<>>
    /\ frame' = NoFrame
    /\ timer' = 0
    /\ stop_depth' = 0
    /\ next_deco_stop' = 0
    /\ next_gas_stop' = 0
    /\ deco_dive' = FALSE
    /\ UNCHANGED <<scen, err, call, ret>>

NextTwice ==
    \/ Next
    \/ Rebuild

SpecTwice == Init /\ [][NextTwice]_vars

----------------------------------------------------------------------------
(* Methods called on their own                                             *)

\* Time.__dict__ as json.dumps(default = lambda o: o.__dict__) writes it and
\* json.loads reads it back: a dict, no Time.  Every dt explored is built
\* with the unit 's'.
TimeDict(time) ==
    [_minutes |-> time.ds, _seconds |-> time.sec, _unit |-> "s"]

\* Parameters.to_json(): the tree of the text.  Numbers, booleans and strings
\* are written and read back as they are, dt as the dict of its attributes.
to_json(self) == [self EXCEPT !.dt = TimeDict(self.dt)]

\* Parameters.from_json(json_str): self.__dict__ = json.loads(json_str)
from_json(self, json_str) == json_str

\* the configurations serialized
ParameterChoices ==
    { [Parameters EXCEPT !.dt = TimeS(d), !.gas_switch = g,
                         !.safety_stop = b, !.stop_depth_incr = i] :
        d \in DtSet, g \in {"depth", "stop", "manual"}, b \in BOOLEAN,
        i \in {10, 30} }

JsonCalls == {[fn |-> "from_json", params |-> p] : p \in ParameterChoices}

\* the call returns value
Return(value) ==
    /\ pc' = "returned"
    /\ ret' = [raised |-> "", value |-> value]
    /\ UNCHANGED <<scen, err, waypoints, ips, wpi, t, prev_ip, out, segments,
                   frame, timer, stop_depth, next_deco_stop, next_gas_stop,
                   deco_dive, earlier, call>>

\* q = Parameters(); q.from_json(p.to_json()): the restored q
FromJson ==
    /\ pc = "call"
    /\ call.fn = "from_json"
    /\ Return(from_json(Parameters, to_json(call.params)))

\* the exception leaves the method
Throw(exception) ==
    /\ pc' = "returned"
    /\ ret' = [raised |-> exception, value |-> 0]
    /\ UNCHANGED <<scen, err, waypoints, ips, wpi, t, prev_ip, out, segments,
                   frame, timer, stop_depth, next_deco_stop, next_gas_stop,
                   deco_dive, earlier, call>>

EAN32 == Gas(32, 0)
EAN32Tank == Tank(200, EAN32, 15)

\* the tank lists of one to three different tanks of air, EAN32 and EAN50,
\* in every order
TankLists ==
    LET Pool == {AirTank, EAN32Tank, EAN50Tank}
    IN  UNION { {ts \in [1..n -> Pool] :
                    \A i, j \in 1..n : i # j => ts[i] # ts[j]} : n \in 1..3 }

\* _select_tank(depth) on a Profile of these tanks, depth in decimetres
SelectCalls ==
    {[fn |-> "select_tank", tanks |-> ts, depth |-> d] :
        ts \in TankLists, d \in {0, 60, 220, 300, 400, 600}}

\* _calculate_next_gas_stop(depth) under each gas-switch policy
GasStopCalls ==
    {[fn |-> "calculate_next_gas_stop", tanks |-> ts, depth |-> d,
      params |-> [Parameters EXCEPT !.gas_switch = g]] :
        ts \in TankLists, d \in {100, 300, 450},
        g \in {"depth", "stop", "manual"}}

\* _interpolate_depth(Time(t, 's')) on the waypoints of a Profile
InterpolateCalls ==
    {[fn |-> "interpolate_depth", waypoints |-> wps, t |-> t0] :
        wps \in {complete_waypoints(<<UserWaypoint(100, 2)>>, TRUE, Parameters),
                 complete_waypoints(<<UserWaypoint(200, 3), UserWaypoint(100, 2)>>,
                                    TRUE, Parameters)},
        t0 \in {-5, 0, 30, 60, 90, 180, 240, 300, 400, 1000}}

\* _calculate_next_deco_stop(ceiling), ceiling in micrometres
DecoStopCalls ==
    {[fn |-> "calculate_next_deco_stop", ceiling |-> c,
      params |-> [Parameters EXCEPT !.last_stop_depth = l,
                                    !.stop_depth_incr = i]] :
        c \in {0, 1, 100000, 2900000, 3000000, 3000001, 4000000, 5000000,
               5900000, 6000000, 6000001, 8900000, 9000000, 9100000},
        l \in {30, 50, 60}, i \in {10, 30}}

SelectTank ==
    /\ pc = "call"
    /\ call.fn = "select_tank"
    /\ Return(select_tank(call.depth, call.tanks))

NextGasStop ==
    /\ pc = "call"
    /\ call.fn = "calculate_next_gas_stop"
    /\ Return(calculate_next_gas_stop(call.depth, call.tanks, call.params))

InterpolateTake(r) ==
    IF r.err # "" THEN Throw(r.err) ELSE Return(r.depth)

InterpolateDepth ==
    /\ pc = "call"
    /\ call.fn = "interpolate_depth"
    /\ InterpolateTake(interpolate_depth(call.waypoints, call.t))

NextDecoStop ==
    /\ pc = "call"
    /\ call.fn = "calculate_next_deco_stop"
    /\ Return(calculate_next_deco_stop(call.ceiling, call.params))

InitCalls ==
    /\ scen = Scenario("", <<>>, <<>>, Parameters)
    /\ pc = "call"
    /\ Idle
    /\ earlier = NoProfile
    /\ ret = NoReturn
    /\ \/ call \in JsonCalls
       \/ call \in SelectCalls
       \/ call \in GasStopCalls
       \/ call \in InterpolateCalls
       \/ call \in DecoStopCalls

NextCalls ==
    \/ FromJson
    \/ SelectTank
    \/ NextGasStop
    \/ InterpolateDepth
    \/ NextDecoStop

SpecCalls == InitCalls /\ [][NextCalls]_vars

----------------------------------------------------------------------------
(* Properties                                                              *)

\* every point the construction holds: committed, staged or being built
StagedPoints ==
    {ips[i] : i \in DOMAIN ips} \cup {out[i] : i \in DOMAIN out}
    \cup UNION {{segments[k][i] : i \in DOMAIN segments[k]} : k \in DOMAIN segments}

\* C1: every realized waypoint and every integration point of a constructed
\* Profile has depth >= 0.  The code rounds prev - v_asc * dt and keeps the
\* result even when it lies above the surface.
C1_DepthNonNegative ==
    pc = "done" =>
        /\ \A i \in DOMAIN waypoints : waypoints[i].depth >= 0
        /\ \A i \in DOMAIN ips : ips[i].waypoint.depth >= 0

\* C2: the first realized waypoint has runtime 0, and along the realized
\* sequence no waypoint has a smaller runtime than the one before it.
C2_RuntimesNonDecreasing ==
    /\ waypoints # <<>> => waypoints[1].runtime.sec = 0
    /\ \A i \in 2..Len(waypoints) :
           waypoints[i].runtime.sec >= waypoints[i - 1].runtime.sec

\* a constructed deco profile: normalized legs followed by ascent legs and stops
C2_Witness ==
    /\ pc = "done"
    /\ deco_dive
    /\ Len(waypoints) > Len(complete_waypoints(scen.waypoints,
                                                params.calc_descent, params)) + 2

\* C3: each integration point's runtime is its predecessor's plus exactly dt,
\* across the junctions of the phases too.
C3_PointsEveryDt ==
    \A i \in 2..Len(ips) :
        ips[i].waypoint.runtime.sec
            = ips[i - 1].waypoint.runtime.sec + params.dt.sec

\* a constructed deco profile with a leg that ends in a held stop, and a stop
\* that is followed by a leg
C3_Witness ==
    /\ pc = "done"
    /\ deco_dive
    /\ \E i \in 2..(Len(ips) - 2) :
          /\ ips[i].waypoint.depth < ips[i - 1].waypoint.depth
          /\ ips[i + 1].waypoint.depth = ips[i + 2].waypoint.depth
    /\ \E i \in 2..(Len(ips) - 1) :
          /\ ips[i].waypoint.depth = ips[i - 1].waypoint.depth
          /\ ips[i + 1].waypoint.depth < ips[i].waypoint.depth

\* C4 (as the claim states it): all 16 stored ceilings of every integration
\* point, and the overall ceiling, are >= 0.
C4_AllCeilingsNonNegative ==
    \A i \in DOMAIN ips :
        /\ \A c \in Compartments : ips[i].ceilings[c] >= 0
        /\ ceiling(ips[i]) >= 0

\* C4 (amended): the overall ceiling of every integration point is >= 0; it is
\* the largest stored value when that is positive, else 0.
C4_OverallCeilingNonNegative ==
    \A i \in DOMAIN ips :
        /\ ceiling(ips[i]) >= 0
        /\ \A c \in Compartments : ceiling(ips[i]) >= ips[i].ceilings[c]

\* a point whose stored ceilings are all negative (overall 0) and a point
\* with a positive overall ceiling
C4_Witness ==
    /\ \E i \in DOMAIN ips :
          /\ \A c \in Compartments : ips[i].ceilings[c] < 0
          /\ ceiling(ips[i]) = 0
    /\ \E i \in DOMAIN ips : ceiling(ips[i]) > 0

\* C5: after a regular ascent from deeper than the safety stop, a waypoint
\* before the last one has the safety-stop depth and the safety-stop duration.
C5_SafetyStopWaypoint ==
    ( /\ pc = "done"
      /\ ~deco_dive
      /\ params.safety_stop
      /\ MaxDepth(scen.waypoints) > params.safety_stop_depth )
    => \E i \in 1..(Len(waypoints) - 1) :
           /\ waypoints[i].depth = params.safety_stop_depth
           /\ waypoints[i].duration.sec
                  = TimeM(params.safety_stop_duration).sec
\* C6: when _add_deco_stop returns, the number of points of the stop times
\* dt is divisible by 60, whichever way its hold loop ended.  A hold loop
\* left by its condition leaves stop_time one dt ahead of the points held.
C6_StopWholeMinutes ==
    (pc = "deco_pad" /\ timer % 60 = 0)
    => (Len(out) * params.dt.sec) % 60 = 0

\* the committed points followed by the staged ones, in the order computed
StagedSequence ==
    LET RECURSIVE Chain(_)
        Chain(k) == IF k > Len(segments) THEN out
                    ELSE segments[k] \o Chain(k + 1)
    IN  ips \o Chain(1)

\* the points of the construction that breathe from the tank with this index
PointsOnTank(tank) == {ip \in StagedPoints : ip.waypoint.tank = tank}

\* a dive to 45 m on <<Air, EAN50>> with the switch policy "depth"
AirEAN50Dive ==
    /\ Len(tanks) = 2
    /\ tanks[1].gas = Air
    /\ tanks[2].gas = EAN50
    /\ params.gas_switch = "depth"
    /\ MaxDepth(scen.waypoints) = 450

\* C7 (as the claim states it): on <<Air, EAN50>> with policy "depth" and a
\* deco dive to 45 m, every point on tank 1 is at 18 m or shallower.
C7_Tank1Within18m ==
    AirEAN50Dive => \A ip \in PointsOnTank(1) : ip.waypoint.depth <= 180

\* C7 (amended): the switch from tank 0 to tank 1 never takes place deeper
\* than 22 m, the MOD of EAN50 at the 1.6 bar that _select_tank tests: every
\* point on tank 1 that follows a point on tank 0 is at 22 m or shallower.
C7_SwitchWithinMod ==
    AirEAN50Dive =>
        \A i \in 2..Len(StagedSequence) :
            ( /\ StagedSequence[i].waypoint.tank = 1
              /\ StagedSequence[i - 1].waypoint.tank = 0 )
            => /\ StagedSequence[i].waypoint.depth <= 220
               /\ ModAtLeast(EAN50, 16, StagedSequence[i].waypoint.depth)

\* a constructed deco dive that held a stop deeper than 22 m on tank 0 and
\* switched to tank 1 at a stop deeper than 18 m
C7_Witness ==
    /\ pc = "done"
    /\ deco_dive
    /\ AirEAN50Dive
    /\ \E i \in 2..Len(ips) :
          /\ ips[i].waypoint.depth > 220
          /\ ips[i].waypoint.depth = ips[i - 1].waypoint.depth
          /\ ips[i].waypoint.depth < 450
          /\ ips[i].waypoint.tank = 0
    /\ \E i \in 2..Len(ips) :
          /\ ips[i].waypoint.tank = 1
          /\ ips[i - 1].waypoint.tank = 0
          /\ ips[i].waypoint.depth > 180

\* C8: with v_asc > 0 and dt > 0 every step of an ascent loop appends a point
\* strictly shallower than the one before it.  round(prev - v_asc * dt, 1)
\* returns prev when v_asc * dt is under 0.05 m.
C8_AscentStepReduces ==
    [][ ( /\ params.v_asc > 0
          /\ params.dt.sec > 0
          /\ pc \in {"direct_ascent", "deco_leg"}
          /\ Len(out') = Len(out) + 1 )
        => prev_ip'.waypoint.depth < prev_ip.waypoint.depth ]_vars

\* C9: with v_asc <= 0 the construction ends in an error; the ascent loop
\* never goes on appending points.
C9_ZeroRateFails ==
    params.v_asc <= 0 => (pc = "error" \/ Len(out) < MaxPoints)

\* the oxygen partial pressure at both ends of the step into ips[i], 1e-4 bar
BelowHalfBar(i) ==
    /\ PpO2Ini(ips[i - 1], tanks) < 5000
    /\ PpO2End(ips[i].waypoint.depth, ips[i].waypoint.tank, tanks) < 5000

\* C10: cns_cum and otu_cum never decrease along the integration points, no
\* step contributes a negative amount, and a step with ppO2 below 0.5 bar at
\* both ends contributes exactly 0.
C10_ToxicityNonDecreasing ==
    \A i \in 2..Len(ips) :
        /\ ips[i].cns >= 0
        /\ ips[i].otu >= 0
        /\ ips[i].cns_cum >= ips[i - 1].cns_cum
        /\ ips[i].otu_cum >= ips[i - 1].otu_cum
        /\ BelowHalfBar(i) => (ips[i].cns = 0 /\ ips[i].otu = 0)
\* C11: loading the text of to_json with from_json restores every option
\* with the same value and type, dt included.  from_json assigns the loaded
\* dict to __dict__, so dt comes back as a dict of Time's attributes.
C11_RoundTripRestores ==
    (pc = "returned" /\ call.fn = "from_json") => ret.value = call.params
BottomEnd ==
    Last(complete_waypoints(scen.waypoints, params.calc_descent,
                            params)).runtime.sec

\* the regular ascent runs from a bottom phase that ended above the safety stop
ShallowRegularAscent ==
    /\ frame.caller \in {"regular_first", "regular_last"}
    /\ ~earlier.built
    /\ Last(scen.waypoints).depth < params.safety_stop_depth

\* C13: a regular ascent that starts above the safety-stop depth goes
\* straight to the surface: no error, no hold, the sequences end at the
\* surface.  The first leg is empty there and segments[-1][-1] fails.
C13_ShallowAscendsDirectly ==
    ShallowRegularAscent
    => /\ pc # "error"
       /\ pc = "done"
          => /\ Last(ips).waypoint.depth <= 0
             /\ Last(waypoints).depth <= 0
             /\ \A i \in DOMAIN ips :
                    ips[i].waypoint.runtime.sec > BottomEnd
                    => ips[i].waypoint.depth < params.safety_stop_depth

\* the pcs of _calculate_deco_ascent
DecoPcs == {"deco_leg", "deco_hold", "deco_pad", "deco_commit"}

\* the branch of __init__ that the step enters: the caller the next frame
\* names, or the deco ascent
BranchEntered(deco, regular) ==
    IF deco
    THEN pc' \in DecoPcs
    ELSE /\ pc' \notin DecoPcs
         /\ frame'.caller \in IF regular
                              THEN {"regular_first", "regular_last"}
                              ELSE {"init"}

\* at most one branch has run, and a Profile that is built ran one
OneBranch ==
    /\ pc \in DecoPcs => deco_dive /\ frame.caller = "probe"
    /\ frame.caller \in {"regular_first", "regular_last"}
       => ~deco_dive /\ params.safety_stop
    /\ frame.caller = "init" => ~deco_dive /\ ~params.safety_stop
    /\ pc = "done"
       => \/ deco_dive /\ frame.caller = "probe"
          \/ frame.caller \in {"regular_last", "init"}

\* C14 as written: the deco ascent runs exactly when some point of the
\* provisional direct ascent has a ceiling above 0, else the regular ascent
\* with the safety stop enabled and the direct ascent without; one branch
\* per Profile.  The code looks at the last point only.
C14_DecoIffAnyCeiling ==
    /\ [](OneBranch)
    /\ [][pc = "branch"
          => BranchEntered(AnyCeilingPositive(out), params.safety_stop)]_vars

\* C14, amended: the deco ascent runs exactly when the last point of the
\* provisional direct ascent has a ceiling above 0, else the regular ascent
\* with the safety stop enabled and the direct ascent without; one branch
\* per Profile.
C14_DecoIffLastCeiling ==
    /\ [](OneBranch)
    /\ [][pc = "branch"
          => BranchEntered(ceiling(Last(out)) > 0, params.safety_stop)]_vars

\* a Profile built by the regular ascent whose ascent, the same points as
\* the provisional one down to the safety stop, has a ceiling above 0
C14_Witness ==
    /\ pc = "done"
    /\ frame.caller = "regular_last"
    /\ ~deco_dive
    /\ \E i \in DOMAIN ips :
           /\ ips[i].waypoint.runtime.sec > BottomEnd
           /\ ceiling(ips[i]) > 0

\* the provisional ascent of line 264 is being made or is about to return
ProbeRuns ==
    \/ pc = "bottom" /\ wpi > Len(waypoints)
    \/ pc = "direct_ascent" /\ frame.caller = "probe"

\* C15: the provisional direct ascent (append=False) commits nothing: from
\* its call to its return no step changes the waypoint sequence, the
\* duration of its last waypoint included, or the integration points.
C15_ProbeCommitsNothing ==
    [][ProbeRuns => waypoints' = waypoints /\ ips' = ips]_vars

\* the provisional ascent has returned its points and none is committed
C15_Witness ==
    /\ pc = "branch"
    /\ out # <<>>
    /\ ~frame.append
    /\ Last(ips).waypoint.depth > Last(out).waypoint.depth
    /\ Last(waypoints).runtime = Last(ips).waypoint.runtime

\* between consecutive points of seq only the tank the earlier point
\* breathes from loses pressure
OnlyTankInUseReduced(seq) ==
    \A i \in 2..Len(seq) :
        \A k \in DOMAIN seq[i].tank_pressure :
            IF k = seq[i - 1].waypoint.tank + 1
            THEN seq[i].tank_pressure[k] <= seq[i - 1].tank_pressure[k]
            ELSE seq[i].tank_pressure[k] = seq[i - 1].tank_pressure[k]

\* C16: between consecutive integration points every tank but the one in
\* use during the step (the predecessor's tank) keeps its pressure, only the
\* tank in use is reduced, and the Tank objects are never modified.
C16_OnlyTankInUseReduced ==
    /\ [](OnlyTankInUseReduced(ips))
    /\ [](\A i \in DOMAIN ips : Len(ips[i].tank_pressure) = Len(tanks))
    /\ [][scen'.tanks = scen.tanks]_vars

\* a Profile on two tanks: a step on tank 0 and a later step on tank 1 each
\* reduce their own tank by a positive amount
C16_Witness ==
    /\ pc = "done"
    /\ Len(tanks) = 2
    /\ \E i \in 2..Len(ips) :
           /\ ips[i - 1].waypoint.tank = 0
           /\ ips[i].tank_pressure[1] < ips[i - 1].tank_pressure[1]
           /\ ips[i].tank_pressure[2] = tanks[2].start_pressure
    /\ \E i \in 2..Len(ips) :
           /\ ips[i - 1].waypoint.tank = 1
           /\ ips[i].tank_pressure[2] < ips[i - 1].tank_pressure[2]
           /\ ips[i].tank_pressure[1] = ips[i - 1].tank_pressure[1]

\* the tanks of the call that may be breathed at its depth: MOD at 1.6 bar
\* at least as deep as the depth
Eligible ==
    {i \in DOMAIN call.tanks : ModAtLeast(call.tanks[i].gas, 16, call.depth)}

\* C17: _select_tank(depth) returns the index of the eligible tank with the
\* highest oxygen fraction, wherever that tank stands in the list.  max_o2
\* stays 0 in the loop, so the last eligible tank is returned.
C17_RichestEligibleTank ==
    (pc = "returned" /\ call.fn = "select_tank" /\ Eligible # {})
    => /\ ret.raised = ""
       /\ ret.value + 1 \in Eligible
       /\ \A i \in Eligible :
              call.tanks[i].gas.O2 <= call.tanks[ret.value + 1].gas.O2

\* the tanks of the call whose MOD at 1.6 bar is shallower than its depth
LimitedTanks ==
    {i \in DOMAIN call.tanks : DeeperThanMod(call.tanks[i].gas, 16, call.depth)}

\* C18: under the policy 'depth' _calculate_next_gas_stop(depth) returns a
\* stop deeper than 0, the MOD of a tank whose MOD is shallower than depth,
\* whenever there is such a tank; under 'stop' and 'manual' it returns 0.
\* Line 679 compares self._params with 'depth', so 0 is returned always.
C18_GasStopUnderDepthPolicy ==
    (pc = "returned" /\ call.fn = "calculate_next_gas_stop")
    => /\ ret.raised = ""
       /\ IF call.params.gas_switch = "depth"
          THEN LimitedTanks # {}
               => /\ ret.value > 0
                  /\ \E i \in LimitedTanks :
                         ret.value = ModUm(call.tanks[i].gas, 16)
          ELSE ret.value = 0

\* C19: _interpolate_depth at an instant before the first or after the last
\* waypoint runtime raises InterpolationError and nothing else, and returns
\* no depth.  After the last runtime self._waypoints[idx + 1] raises
\* IndexError.
C19_OutsideRangeInterpolationError ==
    ( /\ pc = "returned"
      /\ call.fn = "interpolate_depth"
      /\ \/ call.t < call.waypoints[1].runtime.sec
         \/ call.t > Last(call.waypoints).runtime.sec )
    => ret.raised = "InterpolationError"

\* the stop depths _calculate_next_deco_stop may return, decimetres: the
\* last stop and the multiples of the increment at least one increment
\* deeper than it
Admissible(d, last, incr) ==
    \/ d = last
    \/ d % incr = 0 /\ d >= last + incr

\* C20: for a ceiling c > 0 _calculate_next_deco_stop(c) returns the
\* shallowest admissible stop at or deeper than c, and 0 for c = 0; a
\* ceiling equal to the last stop yields the last stop.  Line 595 tests
\* ceiling < last_stop_depth, so that ceiling yields the next stop down.
C20_ShallowestAdmissibleStop ==
    (pc = "returned" /\ call.fn = "calculate_next_deco_stop")
    => /\ ret.raised = ""
       /\ IF call.ceiling = 0
          THEN ret.value = 0
          ELSE /\ Admissible(ret.value, call.params.last_stop_depth,
                             call.params.stop_depth_incr)
               /\ ret.value * 100000 >= call.ceiling
               /\ \A d \in 0..ret.value - 1 :
                      ~ /\ Admissible(d, call.params.last_stop_depth,
                                      call.params.stop_depth_incr)
                        /\ d * 100000 >= call.ceiling

\* the leg that was staged last ends at prev_ip, the point the hold starts from
LegBefore ==
    IF segments # <<>> /\ Last(segments) # <<>> /\ Last(Last(segments)) = prev_ip
    THEN Last(segments) ELSE <<>>

\* the hold at this depth is entered: no point of the leg is shallower than
\* the stop and the diver stands at the stop
ArrivedAt(depth) ==
    /\ prev_ip.waypoint.depth = depth
    /\ \A i \in DOMAIN LegBefore : LegBefore[i].waypoint.depth >= depth

\* C21: on an ascent leg towards a stop depth no point is shallower than the
\* stop, the leg ends at the stop depth, and the waypoint that carries the
\* duration of the hold has the stop depth, whatever v_asc * dt is.  The
\* loops test prev_ip.depth > depth and step by round(v_asc * dt, 1), so a
\* leg can end above the stop.
C21_LegEndsAtStopDepth ==
    /\ (pc = "safety_stop" /\ out = <<>>) => ArrivedAt(params.safety_stop_depth)
    /\ (pc \in {"deco_hold", "deco_pad"} /\ out = <<>>) => ArrivedAt(stop_depth)
    /\ (pc = "done" /\ frame.caller = "regular_last" /\ Len(waypoints) >= 3)
       => waypoints[Len(waypoints) - 2].depth = params.safety_stop_depth

\* C22: in the final waypoint sequence every runtime is the runtime of the
\* waypoint before plus its back-filled duration, in seconds, also when the
\* bottom phase ends off the dt grid.  The ascent is timed from the last
\* integration point, which then lies before the last bottom waypoint.
C22_RuntimeIsRuntimePlusDuration ==
    pc = "done"
    => \A i \in 2..Len(waypoints) :
           waypoints[i].runtime.sec
               = waypoints[i - 1].runtime.sec + waypoints[i - 1].duration.sec

\* C23: every waypoint (d, D) of the input, the last of two or more
\* included, has a stationary waypoint at d with duration D in the
\* normalized sequence.  Line 385 gives the last of several waypoints the
\* duration 0.
C23_EveryUserWaypointKept ==
    pc = "bottom"
    => \A i \in DOMAIN scen.waypoints :
           \E j \in DOMAIN waypoints :
               /\ waypoints[j].depth = scen.waypoints[i].depth
               /\ waypoints[j].duration.sec = scen.waypoints[i].duration.sec
               /\ j < Len(waypoints)
                  => waypoints[j + 1].depth = waypoints[j].depth

\* the duration of a, in 1/600 min, is the depth difference to b over the
\* descent rate going deeper and over the ascent rate going shallower
TransitLeg(a, b) ==
    IF b.depth > a.depth
    THEN a.duration.ds * params.v_desc = (b.depth - a.depth) * 600
    ELSE a.duration.ds * params.v_asc = (a.depth - b.depth) * 600

\* C24: in the normalized sequence two consecutive waypoints of different
\* depths are a transit leg of duration depth difference / rate followed by
\* its end, and with calc_descent off the sequence starts at the first
\* requested depth at runtime 0.
C24_TransitLegDurations ==
    pc = "bottom"
    => /\ \A i \in 2..Len(waypoints) :
              waypoints[i].depth # waypoints[i - 1].depth
              => TransitLeg(waypoints[i - 1], waypoints[i])
       /\ ~params.calc_descent
          => /\ waypoints[1].depth = scen.waypoints[1].depth
             /\ waypoints[1].runtime.sec = 0

\* normalized: no leg from the surface, then a leg down and a leg up
C24_Witness ==
    /\ pc = "bottom"
    /\ ~params.calc_descent
    /\ waypoints[1].depth > 0
    /\ \E i, j \in 2..Len(waypoints) :
           /\ waypoints[i].depth > waypoints[i - 1].depth
           /\ waypoints[j].depth < waypoints[j - 1].depth

\* _add_deco_stop is about to return the points in out
StopHeld ==
    /\ pc = "deco_pad"
    /\ timer % 60 = 0
    /\ out # <<>>

\* C25: under 'stop' or 'depth' a deco stop held for gas_switch_duration or
\* longer ends on the tank that tank selection gives for the stop depth,
\* in whichever loop it got that long.  The padding loop tests stop_time
\* before the point is counted, so a stop of exactly that duration is not
\* switched.
C25_StopEndsOnSelectedTank ==
    ( /\ StopHeld
      /\ params.gas_switch \in {"stop", "depth"}
      /\ Len(out) * params.dt.sec >= params.gas_switch_duration )
    => Last(out).waypoint.tank = select_tank(stop_depth, tanks)

\* C26: under the policy 'manual' no tank switch happens: every realized
\* waypoint and every integration point, staged or committed, in every
\* branch and through every deco stop, is on tank 0.
C26_ManualNeverSwitches ==
    params.gas_switch = "manual"
    => /\ \A i \in DOMAIN waypoints : waypoints[i].tank = 0
       /\ \A i \in DOMAIN StagedSequence : StagedSequence[i].waypoint.tank = 0

\* a Profile built under 'manual' with a deco stop of gas_switch_duration or
\* longer at a depth where tank selection gives another tank
C26_Witness ==
    /\ pc = "done"
    /\ params.gas_switch = "manual"
    /\ deco_dive
    /\ \E i \in 2..Len(ips) :
           /\ ips[i].waypoint.depth = ips[i - 1].waypoint.depth
           /\ ips[i].waypoint.depth = stop_depth
           /\ select_tank(stop_depth, tanks) # 0
           /\ timer >= params.gas_switch_duration

\* C27: a Profile whose last user waypoint is at the surface is built: the
\* branch selection and the ascent take an ascent of no step, append no
\* point and leave the sequences ending at the surface.  The provisional
\* ascent returns [] and [-1] of line 264 raises IndexError.
C27_BottomEndingAtSurfaceBuilds ==
    Last(scen.waypoints).depth = 0
    => /\ pc # "error"
       /\ pc = "done"
          => /\ Last(ips).waypoint.depth = 0
             /\ Last(ips).waypoint.runtime.sec <= BottomEnd
             /\ Last(waypoints).depth = 0

====
